---- MODULE Spec2Model ----
(***************************************************************************)
(* Recuvia: the upload route handler (frontend/app/api/upload/route.ts).   *)
(*                                                                         *)
(* Several POST requests run in one Node.js process.  Each request is a    *)
(* sequence of steps separated by the handler's awaits; requests interleave *)
(* at those awaits and share the module-level state (processingStatus,     *)
(* _processor, _model) and the external services (storage, database).      *)
(*                                                                         *)
(* Strings are TLA+ strings and the empty string is "".  A value that may  *)
(* be null in the source is a record with a field telling whether it is    *)
(* present.  Date.now() values (timestamps, processingTime) are not        *)
(* modelled.  An embedding vector is represented by its length.            *)
(***************************************************************************)
EXTENDS Integers, Sequences, FiniteSets, TLC

\* ------------------------------------------------------------- bounds

\* Number of upload requests the process handles, possibly concurrently.
NumReqs == 2

Reqs == 1..NumReqs

\* ---------------------------------------------------- program constants

\* The embedding dimension imported from utils/supabase (CLIP ViT-B/32).
VECTOR_DIMENSION == 512

maxRetriesMutant == 3 + 1
\* const maxRetries = 3
maxRetries == 3

\* --------------------------------------------------------- input domains

\* session.user of a signed-in caller.
Users == <<[id |-> "user-1"], [id |-> "user-2"]>>

NoUser == [id |-> ""]

\* The user whose cookies request r carries: concurrent requests come from
\* different users.
Caller(r) == Users[((r - 1) % Len(Users)) + 1]

\* FormData.get() of a text field: null when the field is missing.
Absent == [present |-> FALSE, value |-> ""]

Text(s) == [present |-> TRUE, value |-> s]

\* FormData.get('image'): null when missing, else a File with a name (a
\* sequence of characters) and a size in bytes.  A File of size 0 is what a
\* multipart part with no content yields.
NoFile == [present |-> FALSE, name |-> <<>>, size |-> 0]

File(name, size) == [present |-> TRUE, name |-> name, size |-> size]

\* A form with every field filled in.
FullForm ==
    [title |-> Text("Wallet"), description |-> Text("black leather"),
     location |-> Text("Library"), image |-> File(<<"a", " ", "b">>, 1)]

\* A request with no fields at all.
NoForm == [title |-> Absent, description |-> Absent, location |-> Absent,
           image |-> NoFile]

\* The forms a request can carry: the full form, the form with one required
\* field missing or empty, and the form with nothing in it.
Forms ==
    {FullForm, NoForm}
    \cup {[FullForm EXCEPT !.title = v] : v \in {Absent, Text("")}}
    \cup {[FullForm EXCEPT !.location = v] : v \in {Absent, Text("")}}
    \cup {[FullForm EXCEPT !.image = i] : i \in {NoFile, File(<<"a", " ", "b">>, 0)}}

\* Errors: a thrown or returned error value.  kind "Error" is an instance of
\* Error, kind "null" is the absence of an error.
NoError == [kind |-> "null", code |-> "", message |-> ""]

Err(msg) == [kind |-> "Error", code |-> "", message |-> msg]

\* The error a row-level-security rejection raises (Postgres code 42501).
RlsError == [kind |-> "Error", code |-> "42501",
             message |-> "new row violates row-level security policy"]

\* What an insert attempt can fail with.
InsertErrors == {Err("connection reset"), RlsError}

\* What an awaited external call can reject with.
Rejection == Err("fetch failed")

\* Lengths the vision model's output row can have.
EmbeddingLengths == {VECTOR_DIMENSION - 1, VECTOR_DIMENSION, VECTOR_DIMENSION + 1}

\* ------------------------------------------------------------ variables

VARIABLES
    processingStatus,  \* module-level map itemId -> [status, message]
    _processor,        \* module-level handle: 0 is null, 1 a loaded one
    _model,            \* module-level handle: 0 is null, 1 a loaded one
    processorInits,    \* number of AutoProcessor.from_pretrained calls started
    modelInits,        \* number of CLIPVisionModelWithProjection.from_pretrained calls started
    preProcessor,      \* the module-load getProcessor(): "off", "loading" or "settled"
    preModel,          \* the module-load getModel(): "off", "loading" or "settled"
    uuidCount,         \* number of identifiers uuidv4() has returned
    storageObjects,    \* names of the objects in the 'item-images' bucket
    dbRows,            \* rows the database has accepted
    pc,                \* per request: the await the handler is suspended at
    session,           \* per request: result of supabase.auth.getSession()
    form,              \* per request: the parsed form
    itemId,            \* per request: let itemId
    fileName,          \* per request: let fileName
    imageUrl,          \* per request: let imageUrl
    imageVector,       \* per request: [length] of the computed embedding
    attempt,           \* per request: the retry loop's counter
    lastError,         \* per request: let lastError
    response,          \* per request: the Response returned
    calls              \* per request: the external calls made so far, in order

\* The state of the browser page app/main/page.tsx (one signed-in user).
VARIABLES
    user,                \* useAuth().user: [email]
    searchQuery,         \* useState(''): a sequence of characters
    similarityThreshold, \* useState(0.1), in hundredths
    maxResults,          \* useState('20'): an option of the select, as characters
    customMaxResults,    \* useState(''): a sequence of characters
    searchImage,         \* useState<File | null>(null): TRUE when a file is selected
    items,               \* useState<Item[]>([])
    loading,             \* useState(false)
    searchLoading,       \* useState(false)
    searchProgress,      \* useState('idle')
    deleting,            \* useState(false)
    invoked,             \* the latest handler invocation and how many there were
    inflight,            \* the handler invocations suspended at an await
    sent,                \* the latest request fetch() sent and how many it sent
    catalog              \* the items the data store holds

\* The upload form of app/main/page.tsx.
VARIABLES
    title,               \* useState(''): a sequence of characters
    location,            \* useState(''): a sequence of characters
    imageFile,           \* useState<File | null>(null): TRUE when a file is selected
    uploadStatus,        \* useState('idle')
    uploading,           \* useState(false)
    uploadsStarted,      \* number of upload requests sent
    uploadsInFlight,     \* the uploads whose handleSubmit is suspended at its await
    timers               \* the uploads whose 5-second reset timer is pending

\* The page app/auth/signin/page.tsx.
VARIABLES
    email,               \* useState('')
    password,            \* useState('')
    signInError,         \* useState<string | null>(null), the state named error
    signInLoading,       \* useState(false), the state named loading
    signInPc,            \* where handleSignIn is: "idle", "signInWithPassword", "left"
    signIns,             \* number of handleSignIn invocations
    credentials,         \* the argument of the latest signInWithPassword call
    navigations          \* the router calls made, in order

shared == <<processingStatus, _processor, _model, processorInits, modelInits,
            preProcessor, preModel, uuidCount, storageObjects, dbRows>>

locals == <<pc, session, form, itemId, fileName, imageUrl, imageVector,
            attempt, lastError, response, calls>>

serverVars == <<shared, locals>>

searchVars == <<user, searchQuery, similarityThreshold, maxResults,
                customMaxResults, searchImage, items, loading, searchLoading,
                searchProgress, deleting, invoked, inflight, sent, catalog>>

uploadVars == <<title, location, imageFile, uploadStatus, uploading,
                uploadsStarted, uploadsInFlight, timers>>

signInVars == <<email, password, signInError, signInLoading, signInPc, signIns,
                credentials, navigations>>

clientVars == <<searchVars, uploadVars, signInVars>>

vars == <<serverVars, clientVars>>

\* ------------------------------------------------------ pure helpers

\* One external call: the operation, a number (attempt or delay in ms, else 0)
\* and whether it succeeded.
Call(op, n, ok) == [op |-> op, n |-> n, ok |-> ok]

\* error instanceof Error ? error.message : String(error)
ErrorMessage(error) ==
    IF error.kind = "Error" THEN error.message ELSE error.kind

Uuidv4Mutant(r) == "uuid-" \o ToString(0)
\* uuidv4() as called by request r: every call returns an identifier of its
\* own, and a request calls it at most once.
Uuidv4(r) == "uuid-" \o ToString(r)

\* name.replace(/\s/g, '_'), the result as a string.
RECURSIVE ReplaceWhitespace(_)
ReplaceWhitespace(name) ==
    IF name = <<>> THEN ""
    ELSE (IF Head(name) = " " THEN "_" ELSE Head(name))
         \o ReplaceWhitespace(Tail(name))

\* `${itemId}-${image.name.replace(/\s/g, '_')}`
FileNameOf(id, image) == id \o "-" \o ReplaceWhitespace(image.name)

\* The URL the bucket serves an object under.
PublicUrlOf(name) == "https://storage/item-images/" \o name

\* The values urlData?.publicUrl || "" can take.
PublicUrls(name) == {PublicUrlOf(name), ""}

\* !title, !location
FalsyString(v) == ~v.present \/ v.value = ""

\* !image: a File object is truthy whatever its size.
FalsyFile(f) == ~f.present

\* !title || !location || !image
MissingRequiredFields(f) ==
    FalsyString(f.title) \/ FalsyString(f.location) \/ FalsyFile(f.image)

\* if (sessionError)
HasSessionError(s) == s.error.kind # "null"

NoSessionMutant(s) == FALSE
\* if (!session)
NoSession(s) == ~s.present

UploadFailedMutant(uploadError) == FALSE
\* if (uploadError)
UploadFailed(uploadError) == uploadError.kind # "null"

UrlMissingMutant(url) == FALSE
\* if (!imageUrl)
UrlMissing(url) == url = ""

DimensionMismatchBelowMutant(len) == len < VECTOR_DIMENSION

DimensionMismatchMutant(len) == len > VECTOR_DIMENSION
\* if (imageVector.length !== VECTOR_DIMENSION)
DimensionMismatch(len) == len # VECTOR_DIMENSION

DelayMillisMutant(k) == 2 ^ k

DelayMutant(k) == (2 ^ (k - 1)) * 1000
\* const delay = Math.pow(2, attempt) * 1000
Delay(k) == (2 ^ k) * 1000

\* The object literal itemToInsert.
ItemToInsert(id, f, url, sessionUser, vector) ==
    [id |-> id,
     title |-> f.title.value,
     description |-> f.description.value,
     location |-> f.location.value,
     url |-> url,
     submitter_id |-> sessionUser.id,
     embedding |-> vector]

\* ---------------------------------------------------------- responses

NoResponse == [status |-> 0, success |-> FALSE, error |-> "", itemId |-> "",
               imageUrl |-> ""]

ErrorResponse(status, msg) ==
    [status |-> status, success |-> FALSE, error |-> msg, itemId |-> "",
     imageUrl |-> ""]

SuccessResponse(id, url) ==
    [status |-> 200, success |-> TRUE, error |-> "", itemId |-> id,
     imageUrl |-> url]

\* ------------------------------------------------- processing status

NoEntry == [status |-> "none", message |-> ""]

StatusOf(id) ==
    IF id \in DOMAIN processingStatus THEN processingStatus[id] ELSE NoEntry

\* processingStatus[id] = { status, message, timestamp }
SetStatus(ps, id, status, message) ==
    [k \in DOMAIN ps \cup {id} |->
        IF k = id THEN [status |-> status, message |-> message] ELSE ps[k]]

CatchStatusMutant(ps, id, error) == ps
\* The general catch block's status write: if (itemId) processingStatus[itemId] = ...
CatchStatus(ps, id, error) ==
    IF id # "" THEN SetStatus(ps, id, "error", ErrorMessage(error)) ELSE ps

CatchResponseMutant(error) == ErrorResponse(500, "")
\* The general catch block's response.
CatchResponse(error) ==
    ErrorResponse(500, "Upload failed: " \o ErrorMessage(error))

\* ----------------------------------------------------------------- Init

\* The upload route's module state and requests, with process.env.VERCEL unset:
\* nothing is loaded at module load.
ServerInit ==
    /\ processingStatus = [k \in {} |-> NoEntry]
    /\ _processor = 0
    /\ _model = 0
    /\ processorInits = 0
    /\ modelInits = 0
    /\ preProcessor = "off"
    /\ preModel = "off"
    /\ uuidCount = 0
    /\ storageObjects = {}
    /\ dbRows = {}
    /\ pc = [r \in Reqs |-> "getSession"]
    /\ session = [r \in Reqs |-> [present |-> FALSE, user |-> NoUser, error |-> NoError]]
    /\ form = [r \in Reqs |-> NoForm]
    /\ itemId = [r \in Reqs |-> ""]
    /\ fileName = [r \in Reqs |-> ""]
    /\ imageUrl = [r \in Reqs |-> ""]
    /\ imageVector = [r \in Reqs |-> [length |-> 0]]
    /\ attempt = [r \in Reqs |-> 0]
    /\ lastError = [r \in Reqs |-> NoError]
    /\ response = [r \in Reqs |-> NoResponse]
    /\ calls = [r \in Reqs |-> <<>>]

\* The same with process.env.VERCEL set (lines 64-66): module load has called
\* getProcessor() and getModel(), both found null and both are loading.
ServerInitVercel ==
    /\ processingStatus = [k \in {} |-> NoEntry]
    /\ _processor = 0
    /\ _model = 0
    /\ processorInits = 1
    /\ modelInits = 1
    /\ preProcessor = "loading"
    /\ preModel = "loading"
    /\ uuidCount = 0
    /\ storageObjects = {}
    /\ dbRows = {}
    /\ pc = [r \in Reqs |-> "getSession"]
    /\ session = [r \in Reqs |-> [present |-> FALSE, user |-> NoUser, error |-> NoError]]
    /\ form = [r \in Reqs |-> NoForm]
    /\ itemId = [r \in Reqs |-> ""]
    /\ fileName = [r \in Reqs |-> ""]
    /\ imageUrl = [r \in Reqs |-> ""]
    /\ imageVector = [r \in Reqs |-> [length |-> 0]]
    /\ attempt = [r \in Reqs |-> 0]
    /\ lastError = [r \in Reqs |-> NoError]
    /\ response = [r \in Reqs |-> NoResponse]
    /\ calls = [r \in Reqs |-> <<>>]

\* -------------------------------------------------------------- actions

\* What supabase.auth.getSession() can resolve to: a session, no session, or
\* an error (and then no session).
SessionResults(r) ==
    {[present |-> TRUE, user |-> Caller(r), error |-> NoError]}
    \cup {[present |-> FALSE, user |-> NoUser, error |-> NoError],
          [present |-> FALSE, user |-> NoUser, error |-> Err("session fetch failed")]}

\* The request ends with the response resp.
Return(r, resp) ==
    /\ response' = [response EXCEPT ![r] = resp]
    /\ pc' = [pc EXCEPT ![r] = "done"]

CatchStorageMutant(objects, name) == objects \ {name}
\* The general catch block's effect on the bucket holding objects, for a
\* request whose object is name: none (lines 235-250 call no storage.remove).
CatchStorage(objects, name) == objects

\* The general catch block (lines 235-250), entered with the bucket holding
\* objects: record the error status when an identifier exists, and answer 500.
CatchWith(r, error, objects, name) ==
    /\ processingStatus' = CatchStatus(processingStatus, itemId[r], error)
    /\ storageObjects' = CatchStorage(objects, name)
    /\ Return(r, CatchResponse(error))

Catch(r, error) == CatchWith(r, error, storageObjects, fileName[r])

\* Lines 68-107: the handler starts and awaits getSession().
GetSession(r) ==
    /\ pc[r] = "getSession"
    /\ \/ \* getSession() rejects
          /\ calls' = [calls EXCEPT ![r] = Append(@, Call("getSession", 0, FALSE))]
          /\ Catch(r, Rejection)
          /\ UNCHANGED session
       \/ \E s \in SessionResults(r) :
          /\ calls' = [calls EXCEPT ![r] = Append(@, Call("getSession", 0, TRUE))]
          /\ session' = [session EXCEPT ![r] = s]
          /\ UNCHANGED <<processingStatus, storageObjects>>
          /\ IF HasSessionError(s)
             THEN Return(r, ErrorResponse(500,
                      "Server error retrieving session: " \o s.error.message))
             ELSE IF NoSession(s)
             THEN Return(r, ErrorResponse(401, "No active session"))
             ELSE /\ pc' = [pc EXCEPT ![r] = "formData"]
                  /\ UNCHANGED response
    /\ UNCHANGED <<_processor, _model, processorInits, modelInits, preProcessor,
                   preModel, uuidCount, dbRows, form, itemId, fileName,
                   imageUrl, imageVector, attempt, lastError>>
    /\ UNCHANGED clientVars

\* Lines 110-129: await req.formData(), validate the required fields, generate
\* the identifier and record the initial status.
ReadForm(r) ==
    /\ pc[r] = "formData"
    /\ \/ \* req.formData() rejects
          /\ calls' = [calls EXCEPT ![r] = Append(@, Call("formData", 0, FALSE))]
          /\ Catch(r, Rejection)
          /\ UNCHANGED <<form, itemId, uuidCount>>
       \/ \E f \in Forms :
          /\ calls' = [calls EXCEPT ![r] = Append(@, Call("formData", 0, TRUE))]
          /\ form' = [form EXCEPT ![r] = f]
          /\ UNCHANGED storageObjects
          /\ IF MissingRequiredFields(f)
             THEN /\ Return(r, ErrorResponse(400, "Missing required fields"))
                  /\ UNCHANGED <<itemId, uuidCount, processingStatus>>
             ELSE /\ uuidCount' = uuidCount + 1
                  /\ itemId' = [itemId EXCEPT ![r] = Uuidv4(r)]
                  /\ processingStatus' =
                         SetStatus(processingStatus, Uuidv4(r),
                                   "processing", "Starting upload process")
                  /\ pc' = [pc EXCEPT ![r] = "upload"]
                  /\ UNCHANGED response
    /\ UNCHANGED <<_processor, _model, processorInits, modelInits, preProcessor,
                   preModel, dbRows, session, fileName, imageUrl,
                   imageVector, attempt, lastError>>
    /\ UNCHANGED clientVars

\* Lines 131-151: read the image bytes, upload them under fileName, then look
\* up the public URL (a synchronous call).
StorageUpload(r) ==
    /\ pc[r] = "upload"
    /\ fileName' = [fileName EXCEPT ![r] = FileNameOf(itemId[r], form[r].image)]
    /\ \/ \* upload() rejects
          /\ calls' = [calls EXCEPT ![r] = Append(@, Call("upload", 0, FALSE))]
          /\ CatchWith(r, Rejection, storageObjects, fileName'[r])
          /\ UNCHANGED imageUrl
       \/ \* upload() resolves with an error, or with none
          \E uploadError \in {NoError, Err("bucket unavailable")} :
             IF UploadFailed(uploadError)
             THEN /\ calls' = [calls EXCEPT ![r] = Append(@, Call("upload", 0, FALSE))]
                  /\ CatchWith(r, Err("Storage upload error: " \o uploadError.message),
                               storageObjects, fileName'[r])
                  /\ UNCHANGED imageUrl
             ELSE \E url \in PublicUrls(fileName'[r]) :
                  LET stored == IF uploadError = NoError
                                THEN storageObjects \cup {fileName'[r]}
                                ELSE storageObjects
                  IN
                  /\ calls' = [calls EXCEPT ![r] =
                         @ \o <<Call("upload", 0, uploadError = NoError),
                                Call("getPublicUrl", 0, url # "")>>]
                  /\ imageUrl' = [imageUrl EXCEPT ![r] = url]
                  /\ IF UrlMissing(url)
                     THEN CatchWith(r, Err("Failed to get public URL for uploaded image."),
                                    stored, fileName'[r])
                     ELSE /\ storageObjects' = stored
                          /\ pc' = [pc EXCEPT ![r] = "getProcessor"]
                          /\ UNCHANGED <<response, processingStatus>>
    /\ UNCHANGED <<_processor, _model, processorInits, modelInits, preProcessor,
                   preModel, uuidCount, dbRows, session, form, itemId,
                   imageVector, attempt, lastError>>
    /\ UNCHANGED clientVars

NotLoadedMutant(handle) == TRUE
\* if (!_processor), if (!_model)
NotLoaded(handle) == handle = 0

\* getProcessor() up to its await (lines 46-49), or to its return when the
\* processor is already there (line 51).
GetProcessor(r) ==
    /\ pc[r] = "getProcessor"
    /\ IF NotLoaded(_processor)
       THEN /\ processorInits' = processorInits + 1
            /\ pc' = [pc EXCEPT ![r] = "loadProcessor"]
       ELSE /\ pc' = [pc EXCEPT ![r] = "getModel"]
            /\ UNCHANGED processorInits
    /\ UNCHANGED <<processingStatus, _processor, _model, modelInits,
                   preProcessor, preModel, uuidCount,
                   storageObjects, dbRows, session, form, itemId, fileName,
                   imageUrl, imageVector, attempt, lastError, response, calls>>
    /\ UNCHANGED clientVars

\* AutoProcessor.from_pretrained() settles (line 49).
LoadProcessor(r) ==
    /\ pc[r] = "loadProcessor"
    /\ \/ /\ calls' = [calls EXCEPT ![r] = Append(@, Call("loadProcessor", 0, FALSE))]
          /\ Catch(r, Rejection)
          /\ UNCHANGED _processor
       \/ /\ calls' = [calls EXCEPT ![r] = Append(@, Call("loadProcessor", 0, TRUE))]
          /\ _processor' = 1
          /\ pc' = [pc EXCEPT ![r] = "getModel"]
          /\ UNCHANGED <<response, processingStatus, storageObjects>>
    /\ UNCHANGED <<_model, processorInits, modelInits, preProcessor, preModel,
                   uuidCount, dbRows, session, form, itemId, fileName,
                   imageUrl, imageVector, attempt, lastError>>
    /\ UNCHANGED clientVars

\* getModel() up to its await (lines 55-58), or to its return (line 60).
GetModel(r) ==
    /\ pc[r] = "getModel"
    /\ IF NotLoaded(_model)
       THEN /\ modelInits' = modelInits + 1
            /\ pc' = [pc EXCEPT ![r] = "loadModel"]
       ELSE /\ pc' = [pc EXCEPT ![r] = "embed"]
            /\ UNCHANGED modelInits
    /\ UNCHANGED <<processingStatus, _processor, _model, processorInits,
                   preProcessor, preModel,
                   uuidCount, storageObjects, dbRows, session, form, itemId,
                   fileName, imageUrl, imageVector, attempt, lastError,
                   response, calls>>
    /\ UNCHANGED clientVars

\* CLIPVisionModelWithProjection.from_pretrained() settles (line 58).
LoadModel(r) ==
    /\ pc[r] = "loadModel"
    /\ \/ /\ calls' = [calls EXCEPT ![r] = Append(@, Call("loadModel", 0, FALSE))]
          /\ Catch(r, Rejection)
          /\ UNCHANGED _model
       \/ /\ calls' = [calls EXCEPT ![r] = Append(@, Call("loadModel", 0, TRUE))]
          /\ _model' = 1
          /\ pc' = [pc EXCEPT ![r] = "embed"]
          /\ UNCHANGED <<response, processingStatus, storageObjects>>
    /\ UNCHANGED <<_processor, processorInits, modelInits, preProcessor, preModel,
                   uuidCount, dbRows, session, form, itemId, fileName,
                   imageUrl, imageVector, attempt, lastError>>
    /\ UNCHANGED clientVars

\* Lines 156-164: decode the image, run the processor and the vision model, take
\* the first row of image_embeds and check its length.
ComputeEmbedding(r) ==
    /\ pc[r] = "embed"
    /\ \/ \* RawImage.fromBlob, processor() or vision_model() rejects
          /\ calls' = [calls EXCEPT ![r] = Append(@, Call("embed", 0, FALSE))]
          /\ Catch(r, Rejection)
          /\ UNCHANGED <<imageVector, attempt>>
       \/ \* a zero-byte blob cannot be decoded; any other image yields a vector
          \E len \in EmbeddingLengths :
          /\ form[r].image.size > 0
          /\ calls' = [calls EXCEPT ![r] = Append(@, Call("embed", 0, TRUE))]
          /\ imageVector' = [imageVector EXCEPT ![r] = [length |-> len]]
          /\ IF DimensionMismatch(len)
             THEN /\ Catch(r, Err("Generated embedding dimension (" \o ToString(len)
                            \o ") does not match expected dimension ("
                            \o ToString(VECTOR_DIMENSION) \o ")"))
                  /\ UNCHANGED attempt
             ELSE /\ attempt' = [attempt EXCEPT ![r] = 1]
                  /\ pc' = [pc EXCEPT ![r] = "insert"]
                  /\ UNCHANGED <<response, processingStatus, storageObjects>>
    /\ UNCHANGED <<_processor, _model, processorInits, modelInits, preProcessor,
                   preModel, uuidCount, dbRows, session, form, itemId, fileName,
                   imageUrl, lastError>>
    /\ UNCHANGED clientVars

\* The item inserted by request r (lines 176-184).
ItemOfMutant(r) ==
    ItemToInsert(itemId[r] \o ToString(attempt[r]), form[r], imageUrl[r],
                 session[r].user, imageVector[r])
ItemOf(r) ==
    ItemToInsert(itemId[r], form[r], imageUrl[r], session[r].user, imageVector[r])

GiveUpMutant(k, error) == k = maxRetries \/ error.code = "42501"
\* if (attempt === maxRetries): the error's code plays no part (lines 213-218
\* only log a 42501).
GiveUp(k, error) == k = maxRetries

\* One pass of the retry loop (lines 171-228): call insertItemWithEmbedding;
\* on success record 'complete' and answer 200; on failure keep the error and
\* either give up (attempt === maxRetries) or start the backoff timer.
InsertAttempt(r) ==
    /\ pc[r] = "insert"
    /\ attempt[r] <= maxRetries
    /\ \/ \* insertItemWithEmbedding resolves
          /\ calls' = [calls EXCEPT ![r] = Append(@, Call("insert", attempt[r], TRUE))]
          /\ dbRows' = dbRows \cup {ItemOf(r)}
          /\ processingStatus' =
                 SetStatus(processingStatus, itemId[r], "complete",
                           "Successfully processed and stored")
          /\ Return(r, SuccessResponse(itemId[r], imageUrl[r]))
          /\ UNCHANGED <<lastError, storageObjects>>
       \/ \* insertItemWithEmbedding throws
          \E error \in InsertErrors :
          /\ lastError' = [lastError EXCEPT ![r] = error]
          /\ UNCHANGED dbRows
          /\ IF GiveUp(attempt[r], error)
             THEN /\ calls' = [calls EXCEPT ![r] =
                         Append(@, Call("insert", attempt[r], FALSE))]
                  /\ Catch(r, Err("Failed database insert after "
                            \o ToString(maxRetries) \o " attempts: "
                            \o ErrorMessage(error)))
             ELSE /\ calls' = [calls EXCEPT ![r] =
                         @ \o <<Call("insert", attempt[r], FALSE),
                                Call("setTimeout", Delay(attempt[r]), TRUE)>>]
                  /\ pc' = [pc EXCEPT ![r] = "backoff"]
                  /\ UNCHANGED <<response, processingStatus, storageObjects>>
    /\ UNCHANGED <<_processor, _model, processorInits, modelInits, preProcessor,
                   preModel, uuidCount, session, form, itemId, fileName, imageUrl,
                   imageVector, attempt>>
    /\ UNCHANGED clientVars

\* The backoff timer fires (line 228) and the loop moves to the next attempt.
BackoffElapsed(r) ==
    /\ pc[r] = "backoff"
    /\ attempt' = [attempt EXCEPT ![r] = @ + 1]
    /\ pc' = [pc EXCEPT ![r] = "insert"]
    /\ UNCHANGED <<shared, session, form, itemId, fileName, imageUrl,
                   imageVector, lastError, response, calls>>
    /\ UNCHANGED clientVars

\* The module-load getProcessor() settles (lines 49 and 65): the processor is
\* stored, or the rejection goes to console.error.
PreloadProcessor ==
    /\ preProcessor = "loading"
    /\ preProcessor' = "settled"
    /\ \/ _processor' = 1
       \/ UNCHANGED _processor
    /\ UNCHANGED <<processingStatus, _model, processorInits, modelInits,
                   preModel, uuidCount, storageObjects, dbRows, locals>>
    /\ UNCHANGED clientVars

\* The module-load getModel() settles (lines 58 and 65).
PreloadModel ==
    /\ preModel = "loading"
    /\ preModel' = "settled"
    /\ \/ _model' = 1
       \/ UNCHANGED _model
    /\ UNCHANGED <<processingStatus, _processor, processorInits, modelInits,
                   preProcessor, uuidCount, storageObjects, dbRows, locals>>
    /\ UNCHANGED clientVars

\* One step of the handler run for request r.
RequestStep(r) ==
    \/ GetSession(r)
    \/ ReadForm(r)
    \/ StorageUpload(r)
    \/ GetProcessor(r)
    \/ LoadProcessor(r)
    \/ GetModel(r)
    \/ LoadModel(r)
    \/ ComputeEmbedding(r)
    \/ InsertAttempt(r)
    \/ BackoffElapsed(r)

\* ------------------------------------------------- observation helpers

Done(r) == pc[r] = "done"

\* The calls of request r with operation op, in order.
CallsOf(r, op) == SelectSeq(calls[r], LAMBDA c : c.op = op)

Inserts(r) == CallsOf(r, "insert")

\* The insert attempts and backoff timers of request r, in order.
RetryTrace(r) == SelectSeq(calls[r], LAMBDA c : c.op \in {"insert", "setTimeout"})

\* getSession() resolved (did not reject) for request r.
SessionResolved(r) ==
    calls[r] # <<>> /\ calls[r][1] = Call("getSession", 0, TRUE)

\* req.formData() resolved for request r.
FormRead(r) ==
    Len(calls[r]) >= 2 /\ calls[r][2] = Call("formData", 0, TRUE)

\* Request r has left nothing behind but its session lookup.
NoSideEffect(r) ==
    /\ Len(calls[r]) = 1
    /\ form[r] = NoForm
    /\ itemId[r] = ""
    /\ Uuidv4(r) \notin DOMAIN processingStatus
    /\ \A name \in storageObjects : name # FileNameOf(Uuidv4(r), FullForm.image)
    /\ \A row \in dbRows : row.id # Uuidv4(r)

\* ----------------------------------------------------------------- C1

EmptyOrMissingText(v) == ~v.present \/ v.value = ""

EmptyOrMissingImage(f) == ~f.present \/ f.size = 0

\* C2 as stated: an authenticated request whose title, location or image is
\* empty or missing has ended with 400 once its form is read, with no status
\* entry and no call to storage, the embedding pipeline or the database.
C2_MissingFieldGives400 ==
    \A r \in Reqs :
        (FormRead(r) /\ (\/ EmptyOrMissingText(form[r].title)
                         \/ EmptyOrMissingText(form[r].location)
                         \/ EmptyOrMissingImage(form[r].image))) =>
            /\ Done(r)
            /\ response[r].status = 400
            /\ Len(calls[r]) = 2
            /\ Uuidv4(r) \notin DOMAIN processingStatus

\* ----------------------------------------------------------------- C3

\* C3: a request whose first two insert attempts failed and whose third
\* succeeded has made exactly the attempts 1, 2, 3 with waits of 2000 ms and
\* 4000 ms between them, and has ended with 200 and status 'complete'.
C3_FailTwiceThenSucceed ==
    \A r \in Reqs :
        (/\ Len(Inserts(r)) >= 3
         /\ ~Inserts(r)[1].ok /\ ~Inserts(r)[2].ok /\ Inserts(r)[3].ok) =>
            /\ RetryTrace(r) = <<Call("insert", 1, FALSE), Call("setTimeout", 2000, TRUE),
                                 Call("insert", 2, FALSE), Call("setTimeout", 4000, TRUE),
                                 Call("insert", 3, TRUE)>>
            /\ Done(r)
            /\ response[r].status = 200 /\ response[r].success
            /\ StatusOf(itemId[r]).status = "complete"

C3_Witness ==
    \E r \in Reqs :
        /\ Len(Inserts(r)) = 3
        /\ ~Inserts(r)[1].ok /\ ~Inserts(r)[2].ok /\ Inserts(r)[3].ok
        /\ response[r].status = 200

\* ----------------------------------------------------------------- C4

AllInsertsFailed(r) ==
    Inserts(r) # <<>> /\ \A i \in 1..Len(Inserts(r)) : ~Inserts(r)[i].ok

C5_BackoffSchedule ==
    \A r \in Reqs :
        LET ins == Inserts(r)
            tr == RetryTrace(r)
        IN  /\ Len(ins) <= 3
            /\ \A i \in 1..Len(ins) : ins[i].n = i
            /\ \A i \in 1..(Len(ins) - 1) : ~ins[i].ok
            /\ \A j \in 1..Len(tr) :
                  IF j % 2 = 1
                  THEN tr[j].op = "insert" /\ tr[j].n = (j + 1) \div 2
                  ELSE /\ tr[j].op = "setTimeout"
                       /\ ~tr[j - 1].ok
                       /\ tr[j - 1].n < 3
                       /\ tr[j].n = (2 ^ tr[j - 1].n) * 1000
            /\ \A i \in 1..Len(ins) :
                  (~ins[i].ok /\ i < 3) => Len(tr) >= 2 * i

C5_Witness ==
    \E r \in Reqs :
        /\ Len(CallsOf(r, "setTimeout")) = 2
        /\ CallsOf(r, "setTimeout")[1].n = 2000
        /\ CallsOf(r, "setTimeout")[2].n = 4000
        /\ pc[r] = "insert"

\* ----------------------------------------------------------------- C6

\* The database rows whose id is the given identifier.
RowsOf(id) == {row \in dbRows : row.id = id}

\* C6: a request answered 200 returns a non-empty imageUrl, and the database
\* holds exactly one row with the returned itemId; that row's url is the
\* returned imageUrl, its embedding has length VECTOR_DIMENSION and its
\* submitter_id is the id of the session's user.
C6_SuccessGuarantees ==
    \A r \in Reqs :
        response[r].status = 200 =>
            /\ response[r].imageUrl # ""
            /\ response[r].itemId # ""
            /\ Cardinality(RowsOf(response[r].itemId)) = 1
            /\ \A row \in RowsOf(response[r].itemId) :
                  /\ row.url = response[r].imageUrl
                  /\ row.embedding.length = 512
                  /\ session[r].present
                  /\ row.submitter_id = session[r].user.id
                  /\ row.submitter_id = Caller(r).id

C6_Witness ==
    \A r \in Reqs : response[r].status = 200 /\ RowsOf(response[r].itemId) # {}

\* ----------------------------------------------------------------- C7

\* The embedding of request r has been computed.
Embedded(r) == CallsOf(r, "embed") = <<Call("embed", 0, TRUE)>>

\* C7: a request whose computed embedding has a length other than
\* VECTOR_DIMENSION has made no insert attempt, has no database row, keeps the
\* vector as computed, and has ended with 500 and status 'error'.
C7_DimensionMismatchFatal ==
    \A r \in Reqs :
        (Embedded(r) /\ imageVector[r].length # 512) =>
            /\ Inserts(r) = <<>>
            /\ RowsOf(itemId[r]) = {}
            /\ Done(r)
            /\ response[r].status = 500
            /\ StatusOf(itemId[r]).status = "error"

C7_Witness ==
    \E r, q \in Reqs :
        /\ Embedded(r) /\ imageVector[r].length = 511 /\ response[r].status = 500
        /\ Embedded(q) /\ imageVector[q].length = 513 /\ response[q].status = 500

\* ----------------------------------------------------------------- C8

\* C8: a request calls the storage upload at most once; when that call has
\* failed it is the request's last external call (no URL lookup, no
\* embedding, no insert) and the request has ended with 500.
C8_UploadOnceNoRetry ==
    \A r \in Reqs :
        /\ Len(CallsOf(r, "upload")) <= 1
        /\ (CallsOf(r, "upload") = <<Call("upload", 0, FALSE)>>) =>
              /\ calls[r][Len(calls[r])].op = "upload"
              /\ CallsOf(r, "getPublicUrl") = <<>>
              /\ CallsOf(r, "embed") = <<>>
              /\ Inserts(r) = <<>>
              /\ Done(r)
              /\ response[r].status = 500
              /\ response[r].error \in
                     {"Upload failed: Storage upload error: bucket unavailable",
                      "Upload failed: fetch failed"}

C8_Witness ==
    \E r \in Reqs :
        /\ CallsOf(r, "upload") = <<Call("upload", 0, FALSE)>>
        /\ response[r].error = "Upload failed: Storage upload error: bucket unavailable"

\* ----------------------------------------------------------------- C9

\* The storage returned no public URL to request r.
UrlLookupEmpty(r) == CallsOf(r, "getPublicUrl") = <<Call("getPublicUrl", 0, FALSE)>>

\* C9: a request whose public-URL lookup returned an empty or missing URL has
\* made no further external call (no embedding, no insert) and has ended with
\* 500 and status 'error'.
C9_EmptyUrlFatal ==
    \A r \in Reqs :
        UrlLookupEmpty(r) =>
            /\ calls[r][Len(calls[r])].op = "getPublicUrl"
            /\ CallsOf(r, "embed") = <<>>
            /\ Inserts(r) = <<>>
            /\ Done(r)
            /\ response[r].status = 500
            /\ StatusOf(itemId[r]).status = "error"

C9_Witness ==
    \E r \in Reqs : UrlLookupEmpty(r) /\ response[r].status = 500

\* ---------------------------------------------------------------- C10

\* The state part of C10, for every request that has generated an identifier.
StatusLifecycle ==
    \A r \in Reqs :
        /\ CallsOf(r, "upload") # <<>> => itemId[r] # ""
        /\ itemId[r] # "" =>
              /\ itemId[r] \in DOMAIN processingStatus
              /\ ~Done(r) => StatusOf(itemId[r]).status = "processing"
              /\ Done(r) =>
                    /\ response[r].status \in {200, 500}
                    /\ StatusOf(itemId[r]).status = "complete" <=> response[r].status = 200
                    /\ StatusOf(itemId[r]).status = "error" <=> response[r].status = 500

\* C10: an identifier's status is 'processing' from its generation, before the
\* storage upload, until the response; at the response it is 'complete'
\* exactly for 200 and 'error' exactly for 500; and no step removes an entry
\* from the map.
C10_StatusLifecycle ==
    /\ []StatusLifecycle
    /\ [][DOMAIN processingStatus \subseteq DOMAIN processingStatus']_vars

C10_Witness ==
    \E r, q \in Reqs :
        /\ Done(r) /\ response[r].status = 200 /\ StatusOf(itemId[r]).status = "complete"
        /\ Done(q) /\ response[q].status = 500 /\ StatusOf(itemId[q]).status = "error"

\* ---------------------------------------------------------------- C11

\* Every returned response is a JSON response of status 200, 400, 401 or 500;
\* a 200 carries success and no error, any other status an error message.
ResponseShape ==
    \A r \in Reqs :
        IF Done(r)
        THEN /\ response[r].status \in {200, 400, 401, 500}
             /\ response[r].status = 200 =>
                    (response[r].success /\ response[r].error = "")
             /\ response[r].status # 200 =>
                    (~response[r].success /\ response[r].error # "")
        ELSE response[r] = NoResponse

C12_InitializedAtMostOnce == processorInits <= 1 /\ modelInits <= 1

\* ---------------------------------------------------------------- C17

\* Request r's step is an insert attempt that failed with the 42501 error.
RlsRejection(r) ==
    /\ pc[r] = "insert"
    /\ Len(calls'[r]) > Len(calls[r])
    /\ ~calls'[r][Len(calls[r]) + 1].ok
    /\ lastError'[r] = RlsError

\* C17: an insert attempt rejected with code 42501 is handled like any other
\* failure: before the third attempt it is followed by the backoff timer of
\* 2^attempt seconds and a further attempt, at the third it ends the request
\* with 500; a request all of whose attempts failed, the last with 42501, has
\* made exactly 3 attempts.
C17_RlsConsumesAttempt ==
    /\ [][\A r \in Reqs :
            RlsRejection(r) =>
                IF attempt[r] < 3
                THEN /\ pc'[r] = "backoff"
                     /\ calls'[r] = calls[r] \o
                            <<Call("insert", attempt[r], FALSE),
                              Call("setTimeout", (2 ^ attempt[r]) * 1000, TRUE)>>
                     /\ response'[r] = NoResponse
                ELSE /\ pc'[r] = "done"
                     /\ response'[r].status = 500
                     /\ calls'[r] = Append(calls[r], Call("insert", 3, FALSE))]_vars
    /\ [](\A r \in Reqs :
            (Done(r) /\ AllInsertsFailed(r) /\ lastError[r] = RlsError) =>
                (Len(Inserts(r)) = 3 /\ response[r].status = 500))

C17_Witness ==
    \E r \in Reqs :
        /\ Done(r) /\ AllInsertsFailed(r) /\ lastError[r] = RlsError
        /\ Len(Inserts(r)) = 3 /\ response[r].status = 500

\* ---------------------------------------------------------------- C18

\* The storage upload of request r succeeded.
Uploaded(r) == CallsOf(r, "upload") = <<Call("upload", 0, TRUE)>>

\* Request r has failed and left its image in storage with no database row.
Orphan(r) ==
    /\ Done(r) /\ response[r].status = 500
    /\ Uploaded(r)
    /\ fileName[r] \in storageObjects
    /\ RowsOf(itemId[r]) = {}

\* C18: no step removes an object from storage; the image a request has
\* uploaded stays stored, and when the request then ends with 500 there is no
\* database row for its identifier.
C18_NoRollback ==
    /\ [][storageObjects \subseteq storageObjects']_vars
    /\ [](\A r \in Reqs :
            Uploaded(r) =>
                /\ fileName[r] \in storageObjects
                /\ (Done(r) /\ response[r].status = 500) => Orphan(r))

C18_Witness ==
    \E r, q \in Reqs :
        /\ Orphan(r) /\ Len(Inserts(r)) = 3
        /\ Orphan(q) /\ calls[q][Len(calls[q])] = Call("getPublicUrl", 0, FALSE)

\* ---------------------------------------------------------------- C19

\* A getProcessor() or getModel() call of request r that has returned has
\* found or stored a loaded handle.
HandlesObtained ==
    \A r \in Reqs :
        /\ pc[r] \in {"getModel", "loadModel", "embed", "insert", "backoff"}
               => _processor = 1
        /\ pc[r] \in {"embed", "insert", "backoff"} => _model = 1

\* C19: a getProcessor()/getModel() call made while the handle is still null
\* starts an initialization of its own, whatever is already loading; a call
\* made once the handle is set starts none; a set handle stays set; and every
\* caller that gets past the call has a loaded handle.
C19_InitializationRace ==
    /\ []HandlesObtained
    /\ [][/\ \A r \in Reqs :
               (pc[r] = "getProcessor" /\ pc'[r] # pc[r]) =>
                   processorInits' = processorInits + (IF _processor = 0 THEN 1 ELSE 0)
          /\ \A r \in Reqs :
               (pc[r] = "getModel" /\ pc'[r] # pc[r]) =>
                   modelInits' = modelInits + (IF _model = 0 THEN 1 ELSE 0)
          /\ _processor # 0 => (processorInits' = processorInits /\ _processor' # 0)
          /\ _model # 0 => (modelInits' = modelInits /\ _model' # 0)]_vars

\* The module-load initialization and two requests have each started an
\* initialization of the processor, and more than one of the model.
C19_Witness ==
    /\ processorInits = NumReqs + 1
    /\ modelInits >= 2
    /\ HandlesObtained
    /\ \E r \in Reqs : pc[r] = "embed"

\* ---------------------------------------------------------------- C20

\* The step is taken by request r.
StepOf(r) == pc'[r] # pc[r]

\* C20: a step changes or adds a processing-status entry only under the
\* identifier of the request taking the step; different requests have
\* different identifiers; and a finished request's entry records that
\* request's own outcome.
C20_DisjointStatusWrites ==
    /\ [][\A k \in DOMAIN processingStatus' :
            (k \notin DOMAIN processingStatus
             \/ processingStatus'[k] # processingStatus[k]) =>
                \E r \in Reqs : StepOf(r) /\ itemId'[r] = k]_vars
    /\ [](\A r, q \in Reqs :
            /\ (r # q /\ itemId[r] # "") => itemId[r] # itemId[q]
            /\ (Done(r) /\ itemId[r] # "") =>
                  IF response[r].status = 200
                  THEN StatusOf(itemId[r]) =
                           [status |-> "complete",
                            message |-> "Successfully processed and stored"]
                  ELSE /\ StatusOf(itemId[r]).status = "error"
                       /\ response[r].error =
                              "Upload failed: " \o StatusOf(itemId[r]).message)

C20_Witness ==
    \E r, q \in Reqs :
        /\ r # q
        /\ Done(r) /\ StatusOf(itemId[r]).status = "complete"
        /\ Done(q) /\ StatusOf(itemId[q]).status = "error"
        /\ Len(Inserts(q)) = 3

\* ------------------------------------------ the main page: input domains

\* Number of handler invocations (searches, deletions) the page makes that
\* reach an await.
MaxOps == 2

\* Number of handler invocations that return without awaiting anything.
MaxQuick == 1

\* The account the delete button is always shown to.
PrivilegedEmail == "riddhimaan22@gmail.com"

\* The signed-in users the page is opened by.
ClientUsers == {[email |-> "alice@example.com"], [email |-> PrivilegedEmail]}

\* item.profiles: optional in the Item interface.
NoProfile == [present |-> FALSE, email |-> ""]

Profile(address) == [present |-> TRUE, email |-> address]

\* An Item: id, profiles and score, the score in hundredths.  Title,
\* location and the image URL play no part in what is modelled.
Item(id, profiles, score) == [id |-> id, profiles |-> profiles, score |-> score]

\* The items in the data store when the page is opened, with the score the
\* search pipeline gives each of them.
StoredItems ==
    {Item("item-1", Profile("alice@example.com"), 90),
     Item("item-2", Profile("bob@example.com"), 40),
     Item("item-3", NoProfile, 20)}

\* The values of the <option>s of the max-results select that the model
\* uses: '20' (the initial one), 'all' and 'custom'.
TWENTY == <<"2", "0">>

ALL == <<"a", "l", "l">>

CUSTOM == <<"c", "u", "s", "t", "o", "m">>

MaxResultsOptions == {TWENTY, ALL, CUSTOM}

\* What the user types in the query box (it starts empty).
Queries == {<<" ", " ">>, <<"w">>}

\* Positions of the threshold slider, in hundredths.
Thresholds == {10, 50}

\* What the user types in the custom max-results input.
TypedValues == {<<>>, <<"0">>, <<"2">>, <<"-", "1">>, <<"x">>}

\* --------------------------------------- the main page: pure functions

Digits == <<"0", "1", "2", "3", "4", "5", "6", "7", "8", "9">>

IsDigit(c) == \E d \in 1..Len(Digits) : Digits[d] = c

DigitValue(c) == (CHOOSE d \in 1..Len(Digits) : Digits[d] = c) - 1

\* /^\d*$/.test(val)
DigitsOnly(val) == \A k \in 1..Len(val) : IsDigit(val[k])

RECURSIVE DecimalValue(_)
DecimalValue(s) ==
    IF s = <<>> THEN 0
    ELSE 10 * DecimalValue(SubSeq(s, 1, Len(s) - 1)) + DigitValue(s[Len(s)])

NaN == [nan |-> TRUE, value |-> 0]

Num(n) == [nan |-> FALSE, value |-> n]

\* Number(s) for the strings of the model: '' is 0, a run of digits with an
\* optional minus sign is its decimal value, anything else is NaN.
Number(s) ==
    IF DigitsOnly(s) THEN Num(DecimalValue(s))
    ELSE IF s[1] = "-" /\ Len(s) > 1 /\ DigitsOnly(Tail(s))
         THEN Num(0 - DecimalValue(Tail(s)))
         ELSE NaN

RECURSIVE TrimStart(_)
TrimStart(s) == IF s # <<>> /\ s[1] = " " THEN TrimStart(Tail(s)) ELSE s

RECURSIVE TrimEnd(_)
TrimEnd(s) ==
    IF s # <<>> /\ s[Len(s)] = " " THEN TrimEnd(SubSeq(s, 1, Len(s) - 1))
    ELSE s

\* s.trim()
Trim(s) == TrimEnd(TrimStart(s))

BlankQueryMutant(query) == query = <<>>
\* !searchQuery.trim()
BlankQuery(query) == Trim(query) = <<>>

\* !customMaxResults || isNaN(Number(customMaxResults))
\*                   || Number(customMaxResults) < 1
CustomInvalid(custom) ==
    custom = <<>> \/ Number(custom).nan \/ Number(custom).value < 1

\* The maxResults member of a request body: absent, a number (JSON) or a
\* string (form field).
NoMax == [kind |-> "absent", value |-> 0, text |-> <<>>]

NumberMax(n) == [kind |-> "number", value |-> n, text |-> <<>>]

StringMax(s) == [kind |-> "string", value |-> 0, text |-> s]

\* let maxResultsNum of handleTextSearch: undefined for 'all', else the
\* number the setting denotes.  JSON.stringify drops an undefined member.
TextMaxResults(option, custom) ==
    IF option = CUSTOM THEN NumberMax(Number(custom).value)
    ELSE IF option # ALL THEN NumberMax(Number(option).value)
    ELSE NoMax

\* formData.append('maxResults', ...) of handleImageSearch.
ImageMaxResults(option, custom) ==
    IF option = CUSTOM THEN StringMax(custom) ELSE StringMax(option)

\* A request fetch() sends to one of the page's endpoints.  threshold is in
\* hundredths, -1 when the body carries none; itemId is '' when the body
\* carries none.
Request(endpoint, query, threshold, max, id) ==
    [endpoint |-> endpoint, query |-> query, threshold |-> threshold,
     maxResults |-> max, itemId |-> id]

NoRequest == Request("", <<>>, -1, NoMax, "")

\* A handler suspended at an await: which handler, what it awaits, the
\* request it sent, and the item and item list its closure captured.
Flight(n, handler, stage, request, item, captured) ==
    [id |-> n, handler |-> handler, stage |-> stage, request |-> request,
     item |-> item, items |-> captured]

NoItem == Item("", NoProfile, 0)

\* data.items || []
ItemsOfMutant(data) == IF data.hasItems THEN data.items \o data.items ELSE <<>>
ItemsOf(data) == IF data.hasItems THEN data.items ELSE <<>>

\* items.filter(i => i.id !== item.id)
RemoveItem(list, item) == SelectSeq(list, LAMBDA i : i.id # item.id)

Displayed(item) == ~loading /\ \E k \in 1..Len(items) : items[k] = item

DeleteButtonShownMutant(u, item) == TRUE
\* user.email === item.profiles?.email
\*     || user.email === 'riddhimaan22@gmail.com'
DeleteButtonShown(u, item) ==
    \/ item.profiles.present /\ u.email = item.profiles.email
    \/ u.email = PrivilegedEmail

\* ---------------------------------- the search and deletion endpoints

\* The limit a request asks for: none for an absent maxResults or 'all'.
Limit(max) ==
    IF max.kind = "number" THEN [bounded |-> TRUE, n |-> max.value]
    ELSE IF max.kind = "string" /\ max.text # ALL
         THEN [bounded |-> TRUE, n |-> Number(max.text).value]
         ELSE [bounded |-> FALSE, n |-> 0]

Matching(stored, threshold) == {i \in stored : i.score >= threshold}

RECURSIVE Ranked(_)
Ranked(S) ==
    IF S = {} THEN <<>>
    ELSE LET top == CHOOSE i \in S : \A j \in S : j.score <= i.score
         IN  <<top>> \o Ranked(S \ {top})

Truncated(list, limit) ==
    IF limit.bounded /\ Len(list) > limit.n THEN SubSeq(list, 1, limit.n)
    ELSE list

\* The items a search answers with: those scoring at least the threshold,
\* best first, cut to the limit.
SearchResults(stored, threshold, max) ==
    Truncated(Ranked(Matching(stored, threshold)), Limit(max))

\* The responses a search request can get: the results, a body without an
\* items member, an empty body, or a failure (a non-2xx status or a
\* rejected fetch).  A request without a threshold is answered with the
\* endpoint's default, which is one of the slider's positions.
SearchResponses(stored, request) ==
    {[ok |-> TRUE, empty |-> FALSE,
      data |-> [hasItems |-> TRUE,
                items |-> SearchResults(stored, t, request.maxResults)]] :
        t \in IF request.threshold < 0 THEN Thresholds
              ELSE {request.threshold}}
    \cup {[ok |-> TRUE, empty |-> FALSE,
           data |-> [hasItems |-> FALSE, items |-> <<>>]],
          [ok |-> TRUE, empty |-> TRUE,
           data |-> [hasItems |-> FALSE, items |-> <<>>]],
          [ok |-> FALSE, empty |-> FALSE,
           data |-> [hasItems |-> FALSE, items |-> <<>>]]}

\* The store after a deletion the endpoint accepted.
Deleted(stored, id) == {i \in stored : i.id # id}

\* -------------------------------------------- the main page: actions

Started == invoked.n

NoInvocation == [n |-> 0, quick |-> 0, handler |-> "", path |-> ""]

NothingSent == [n |-> 0, request |-> NoRequest]

\* An invocation of a handler and the path it takes to its first await or
\* to its return: "empty" (the query is blank), "rejected" (the custom
\* max-results value is refused), "declined" (confirm() answered no) or
\* "await".
Invoke(handler, path) ==
    /\ IF path = "await" THEN Started - invoked.quick < MaxOps
       ELSE invoked.quick < MaxQuick
    /\ invoked' = [n |-> Started + 1,
                   quick |-> invoked.quick + (IF path = "await" THEN 0 ELSE 1),
                   handler |-> handler, path |-> path]

Send(request) == sent' = [n |-> sent.n + 1, request |-> request]

Suspend(handler, stage, request, item, captured) ==
    inflight' = inflight \cup
        {Flight(Started + 1, handler, stage, request, item, captured)}

Settings == <<user, searchQuery, similarityThreshold, maxResults,
              customMaxResults>>

\* onChange of the query box.
SetSearchQuery(q) ==
    /\ searchQuery' = q
    /\ UNCHANGED <<user, similarityThreshold, maxResults, customMaxResults,
                   searchImage, items, loading, searchLoading, searchProgress,
                   deleting, invoked, inflight, sent, catalog>>
    /\ UNCHANGED <<serverVars, uploadVars, signInVars>>

\* onChange of the threshold slider.
SetSimilarityThreshold(t) ==
    /\ similarityThreshold' = t
    /\ UNCHANGED <<user, searchQuery, maxResults, customMaxResults,
                   searchImage, items, loading, searchLoading, searchProgress,
                   deleting, invoked, inflight, sent, catalog>>
    /\ UNCHANGED <<serverVars, uploadVars, signInVars>>

\* onChange of the max-results select.
SetMaxResults(option) ==
    /\ maxResults' = option
    /\ UNCHANGED <<user, searchQuery, similarityThreshold, customMaxResults,
                   searchImage, items, loading, searchLoading, searchProgress,
                   deleting, invoked, inflight, sent, catalog>>
    /\ UNCHANGED <<serverVars, uploadVars, signInVars>>

\* onChange of the custom max-results input, rendered while 'custom' is
\* selected: a value that is not all digits is dropped.
TypeCustomMaxResults(val) ==
    /\ maxResults = CUSTOM
    /\ customMaxResults' = IF DigitsOnly(val) THEN val ELSE customMaxResults
    /\ UNCHANGED <<user, searchQuery, similarityThreshold, maxResults,
                   searchImage, items, loading, searchLoading, searchProgress,
                   deleting, invoked, inflight, sent, catalog>>
    /\ UNCHANGED <<serverVars, uploadVars, signInVars>>

\* handleSearchImageChange with a file chosen.
SelectSearchImage ==
    /\ searchImage' = TRUE
    /\ UNCHANGED <<Settings, items, loading, searchLoading, searchProgress,
                   deleting, invoked, inflight, sent, catalog>>
    /\ UNCHANGED <<serverVars, uploadVars, signInVars>>

\* handleRemoveSearchImage
RemoveSearchImage ==
    /\ searchImage
    /\ searchImage' = FALSE
    /\ UNCHANGED <<Settings, items, loading, searchLoading, searchProgress,
                   deleting, invoked, inflight, sent, catalog>>
    /\ UNCHANGED <<serverVars, uploadVars, signInVars>>

\* handleTextSearch up to its first await.
HandleTextSearch ==
    /\ IF BlankQuery(searchQuery)
       THEN /\ Invoke("handleTextSearch", "empty")
            /\ items' = <<>>
            /\ UNCHANGED <<loading, searchProgress, inflight, sent>>
       ELSE /\ searchProgress' = "searching"
            /\ IF maxResults = CUSTOM /\ CustomInvalid(customMaxResults)
               THEN /\ Invoke("handleTextSearch", "rejected")
                    /\ loading' = FALSE
                    /\ UNCHANGED <<items, inflight, sent>>
               ELSE LET request ==
                            Request("/api/search/text", searchQuery,
                                    similarityThreshold,
                                    TextMaxResults(maxResults, customMaxResults),
                                    "")
                    IN  /\ Invoke("handleTextSearch", "await")
                        /\ loading' = TRUE
                        /\ Send(request)
                        /\ Suspend("handleTextSearch", "search", request,
                                   NoItem, <<>>)
                        /\ UNCHANGED items
    /\ UNCHANGED <<Settings, searchImage, searchLoading, deleting, catalog>>
    /\ UNCHANGED <<serverVars, uploadVars, signInVars>>

\* The search button, disabled while searchProgress is 'searching'.
ClickTextSearch ==
    /\ searchProgress # "searching"
    /\ HandleTextSearch

\* handleKeyPress with Enter in the query box.
HandleKeyPress == HandleTextSearch

\* handleTextSearch from the response of its fetch to its end.
TextSearchResponse(f) ==
    /\ f \in inflight /\ f.handler = "handleTextSearch"
    /\ inflight' = inflight \ {f}
    /\ \E resp \in SearchResponses(catalog, f.request) :
          IF resp.ok /\ ~resp.empty
          THEN /\ items' = ItemsOf(resp.data)
               /\ searchProgress' = "complete"
          ELSE /\ items' = <<>>
               /\ searchProgress' = "error"
    /\ loading' = FALSE
    /\ UNCHANGED <<Settings, searchImage, searchLoading, deleting, invoked,
                   sent, catalog>>
    /\ UNCHANGED <<serverVars, uploadVars, signInVars>>

\* The Find Similar button of the search box (disabled without an image or
\* while searchLoading): handleImageSearch up to its first await.
HandleImageSearch ==
    /\ searchImage /\ ~searchLoading
    /\ searchProgress' = "searching"
    /\ IF maxResults = CUSTOM /\ CustomInvalid(customMaxResults)
       THEN /\ Invoke("handleImageSearch", "rejected")
            /\ searchLoading' = FALSE
            /\ loading' = FALSE
            /\ UNCHANGED <<inflight, sent>>
       ELSE LET request ==
                    Request("/api/search/image", <<>>, similarityThreshold,
                            ImageMaxResults(maxResults, customMaxResults), "")
            IN  /\ Invoke("handleImageSearch", "await")
                /\ searchLoading' = TRUE
                /\ loading' = TRUE
                /\ Send(request)
                /\ Suspend("handleImageSearch", "search", request, NoItem,
                           <<>>)
    /\ UNCHANGED <<Settings, searchImage, items, deleting, catalog>>
    /\ UNCHANGED <<serverVars, uploadVars, signInVars>>

\* handleImageSearch from the response of its fetch to its end.
ImageSearchResponse(f) ==
    /\ f \in inflight /\ f.handler = "handleImageSearch"
    /\ inflight' = inflight \ {f}
    /\ \E resp \in SearchResponses(catalog, f.request) :
          IF resp.ok /\ ~resp.empty
          THEN /\ items' = ItemsOf(resp.data)
               /\ searchProgress' = "complete"
          ELSE /\ items' = <<>>
               /\ searchProgress' = "error"
    /\ searchLoading' = FALSE
    /\ loading' = FALSE
    /\ UNCHANGED <<Settings, searchImage, deleting, invoked, sent, catalog>>
    /\ UNCHANGED <<serverVars, uploadVars, signInVars>>

\* The Search Similar button of a displayed item: handleSearchWithItem up
\* to its first await, the fetch of the item's image.
HandleSearchWithItem(item) ==
    /\ Displayed(item)
    /\ Invoke("handleSearchWithItem", "await")
    /\ loading' = TRUE
    /\ searchProgress' = "searching"
    /\ Suspend("handleSearchWithItem", "image", NoRequest, item, <<>>)
    /\ UNCHANGED <<Settings, searchImage, items, searchLoading, deleting,
                   sent, catalog>>
    /\ UNCHANGED <<serverVars, uploadVars, signInVars>>

\* handleSearchWithItem from the response of the image fetch: to its second
\* await when the image was fetched, to its end otherwise.
ItemImageFetched(f) ==
    /\ f \in inflight /\ f.handler = "handleSearchWithItem"
    /\ f.stage = "image"
    /\ \E ok \in BOOLEAN :
          IF ok
          THEN LET request == Request("/api/search/image", <<>>, -1, NoMax, "")
               IN  /\ searchImage' = TRUE
                   /\ Send(request)
                   /\ inflight' = (inflight \ {f}) \cup
                         {[f EXCEPT !.stage = "search", !.request = request]}
                   /\ UNCHANGED <<items, loading, searchProgress>>
          ELSE /\ items' = <<>>
               /\ searchProgress' = "error"
               /\ loading' = FALSE
               /\ inflight' = inflight \ {f}
               /\ UNCHANGED <<searchImage, sent>>
    /\ UNCHANGED <<Settings, searchLoading, deleting, invoked, catalog>>
    /\ UNCHANGED <<serverVars, uploadVars, signInVars>>

\* handleSearchWithItem from the response of the search to its end.
SimilarSearchResponse(f) ==
    /\ f \in inflight /\ f.handler = "handleSearchWithItem"
    /\ f.stage = "search"
    /\ inflight' = inflight \ {f}
    /\ \E resp \in SearchResponses(catalog, f.request) :
          IF resp.ok /\ ~resp.empty
          THEN /\ items' = ItemsOf(resp.data)
               /\ searchProgress' = "complete"
          ELSE /\ items' = <<>>
               /\ searchProgress' = "error"
    /\ loading' = FALSE
    /\ UNCHANGED <<Settings, searchImage, searchLoading, deleting, invoked,
                   sent, catalog>>
    /\ UNCHANGED <<serverVars, uploadVars, signInVars>>

\* The delete button of a displayed item, rendered for the reporter and the
\* privileged account and disabled while deleting: handleDeleteItem up to
\* its await, or to its end when the confirm() dialog is declined.
HandleDeleteItem(item, confirmed) ==
    /\ Displayed(item)
    /\ DeleteButtonShown(user, item)
    /\ ~deleting
    /\ IF confirmed
       THEN LET request == Request("/api/delete", <<>>, -1, NoMax, item.id)
            IN  /\ Invoke("handleDeleteItem", "await")
                /\ deleting' = TRUE
                /\ Send(request)
                /\ Suspend("handleDeleteItem", "delete", request, item, items)
       ELSE /\ Invoke("handleDeleteItem", "declined")
            /\ UNCHANGED <<deleting, sent, inflight>>
    /\ UNCHANGED <<Settings, searchImage, items, loading, searchLoading,
                   searchProgress, catalog>>
    /\ UNCHANGED <<serverVars, uploadVars, signInVars>>

\* handleDeleteItem from the response of its fetch to its end.  An accepted
\* request has removed the item from the store.
DeleteResponse(f) ==
    /\ f \in inflight /\ f.handler = "handleDeleteItem"
    /\ inflight' = inflight \ {f}
    /\ \E ok \in BOOLEAN :
          IF ok
          THEN /\ catalog' = Deleted(catalog, f.request.itemId)
               /\ items' = RemoveItem(f.items, f.item)
          ELSE UNCHANGED <<catalog, items>>
    /\ deleting' = FALSE
    /\ UNCHANGED <<Settings, searchImage, loading, searchLoading,
                   searchProgress, invoked, sent>>
    /\ UNCHANGED <<serverVars, uploadVars, signInVars>>

\* ------------------------------------- the main page: observation helpers

\* The step invokes the named handler.
Invokes(handler) ==
    /\ invoked'.n = invoked.n + 1
    /\ invoked'.handler = handler

\* The latest invocation is of the named handler and took the named path.
Took(handler, path) == invoked.handler = handler /\ invoked.path = path

\* The step sends a request.
Sends == sent'.n = sent.n + 1

StoredItem(id) == CHOOSE i \in StoredItems : i.id = id

\* ---------------------------------------------------------------- C13

EmptyOrWhitespace(query) == \A k \in 1..Len(query) : query[k] = " "

\* C13: a text search whose query is empty or only whitespace sets the
\* result list to empty, sends no request and leaves no handler suspended,
\* and changes neither the loading flag nor the search progress.
C13_BlankQueryShortCircuits ==
    [][(Invokes("handleTextSearch") /\ EmptyOrWhitespace(searchQuery))
         => /\ items' = <<>>
            /\ sent' = sent
            /\ inflight' = inflight
            /\ loading' = loading
            /\ searchProgress' = searchProgress]_vars

\* C13 witness: results were displayed, then a search with the
\* whitespace-only query emptied the list and sent nothing more.
C13_Witness ==
    /\ searchQuery = <<" ", " ">>
    /\ Took("handleTextSearch", "empty")
    /\ sent.n = 1
    /\ searchProgress = "complete"
    /\ items = <<>>

\* ---------------------------------------------------------------- C14

\* The maximum a sent request asks for, 0 when it asks for none.
MaximumOf(request) ==
    IF request.maxResults.kind = "number" THEN request.maxResults.value
    ELSE IF request.maxResults.kind = "string"
            /\ request.maxResults.text # ALL
         THEN DecimalValue(request.maxResults.text)
         ELSE 0

Descending(list) ==
    \A k \in 1..(Len(list) - 1) : list[k].score >= list[k + 1].score

SearchEndpoints == {"/api/search/text", "/api/search/image"}

\* A positive integer, or the unbounded sentinel of the endpoint.
ValidMaxResults(request) ==
    IF request.endpoint = "/api/search/text"
    THEN \/ request.maxResults.kind = "absent"
         \/ request.maxResults.kind = "number" /\ request.maxResults.value >= 1
    ELSE /\ request.maxResults.kind = "string"
         /\ \/ request.maxResults.text = ALL
            \/ /\ request.maxResults.text # <<>>
               /\ DigitsOnly(request.maxResults.text)
               /\ DecimalValue(request.maxResults.text) >= 1

\* C15: every search request sent carries a max-results value that is a
\* positive integer or the unbounded sentinel (absent for a text search,
\* 'all' for an image search).
C15_SentMaxResultsValid ==
    sent.request.endpoint \in SearchEndpoints => ValidMaxResults(sent.request)

\* ---------------------------------------------------------------- C16

\* The user is the item's reporter or the privileged account.
OwnerOrPrivileged(u, item) ==
    \/ u.email = "riddhimaan22@gmail.com"
    \/ item.profiles.present /\ item.profiles.email = u.email

\* C16: a delete request is sent for an item, and an item leaves the
\* store, only when the signed-in user is the item's reporter or the
\* privileged account.
C16_DeleteOnlyByOwnerOrPrivileged ==
    [][/\ (Sends /\ sent'.request.endpoint = "/api/delete")
            => OwnerOrPrivileged(user, StoredItem(sent'.request.itemId))
       /\ \A i \in catalog \ catalog' : OwnerOrPrivileged(user, i)]_vars

\* C16 witness: a reporter who is not the privileged account has deleted
\* their own item while items of others were displayed.
C16_Witness ==
    /\ user.email = "alice@example.com"
    /\ Took("handleDeleteItem", "await")
    /\ sent.request.endpoint = "/api/delete"
    /\ catalog = StoredItems \ {StoredItem("item-1")}
    /\ Len(items) = 2

\* ---------------------------------------------------------------- C21

\* The step handles the outcome of the image fetch of a Search Similar.
ImageFetchHandled ==
    \E f \in inflight :
        /\ f.handler = "handleSearchWithItem" /\ f.stage = "image"
        /\ f \notin inflight'

\* C21: the search request sent by a search with an existing item's image
\* goes to the image endpoint and carries the current similarity threshold
\* and the current max-results setting, as an image search from the search
\* box does.
C21_SameParametersAsImageSearch ==
    [][(ImageFetchHandled /\ Sends)
         => /\ sent'.request.endpoint = "/api/search/image"
            /\ sent'.request.threshold = similarityThreshold
            /\ sent'.request.maxResults.kind = "string"
            /\ sent'.request.maxResults.text
                   = IF maxResults = CUSTOM THEN customMaxResults
                     ELSE maxResults]_vars

\* ---------------------------------------------------------------- C22

\* C22: a request uploads at most once and embeds at most once, both before
\* its first insert attempt; from the first attempt on neither is repeated
\* and the item submitted stays the same, and a row that enters the table
\* is that item.
C22_OnceBeforeInserts ==
    [][\A r \in Reqs :
         /\ Len(CallsOf(r, "upload")') <= 1
         /\ Len(CallsOf(r, "embed")') <= 1
         /\ (Inserts(r) = <<>> /\ Inserts(r)' # <<>>)
               => /\ CallsOf(r, "upload") = <<Call("upload", 0, TRUE)>>
                  /\ CallsOf(r, "embed") = <<Call("embed", 0, TRUE)>>
         /\ Inserts(r) # <<>>
               => /\ CallsOf(r, "upload")' = CallsOf(r, "upload")
                  /\ CallsOf(r, "embed")' = CallsOf(r, "embed")
                  /\ ItemOf(r)' = ItemOf(r)
         /\ Len(Inserts(r)') > Len(Inserts(r))
               => dbRows' \ dbRows \subseteq {ItemOf(r)}]_vars

\* C22 witness: a request has made three insert attempts, the third
\* accepted, after one upload and one embedding.
C22_Witness ==
    \E r \in Reqs :
        /\ Done(r) /\ response[r].success
        /\ Len(Inserts(r)) = 3
        /\ Len(CallsOf(r, "upload")) = 1
        /\ Len(CallsOf(r, "embed")) = 1
        /\ ItemOf(r) \in dbRows

\* ---------------------------------------------------------------- C23

SearchHandlers ==
    {"handleTextSearch", "handleImageSearch", "handleSearchWithItem"}

\* A search handler is suspended at an await.
SearchInFlight == \E f \in inflight : f.handler \in SearchHandlers

\* C23: once every search handler that was started has finished,
\* searchProgress is not 'searching' (so the text search button is
\* enabled).
C23_ProgressNotStuck == ~SearchInFlight => searchProgress # "searching"

\* ---------------------------------------------------------------- C24

\* The step handles the response of search f although the search started
\* most recently has already had its response handled.
LateResponse(f) ==
    /\ f.handler \in SearchHandlers /\ f.stage = "search"
    /\ f \notin inflight'
    /\ invoked.handler \in SearchHandlers /\ invoked.path = "await"
    /\ f.id < invoked.n
    /\ \A g \in inflight : g.id # invoked.n

\* C24: handling a response never sets loading to false while another
\* search is still in flight, and the response of an earlier search handled
\* after that of the most recently started one changes neither the
\* displayed list nor the search progress.
C24_LatestSearchWins ==
    [][/\ (invoked' = invoked /\ SearchInFlight') => loading'
       /\ \A f \in inflight :
             LateResponse(f)
               => items' = items /\ searchProgress' = searchProgress]_vars

\* ---------------------------------------------------------------- C27

DeletesInFlight == {f \in inflight : f.handler = "handleDeleteItem"}

\* The list without the item.
Without(list, item) == SelectSeq(list, LAMBDA i : i.id # item.id)

\* C27: at most one delete request is in flight; a declined deletion
\* changes nothing; when the response of a delete request is handled the
\* deleting flag becomes false and the displayed list either stays as it is
\* (failure) or loses exactly the deleted item (success).
C27_DeleteUpdatesDisplayedList ==
    [][/\ Cardinality(DeletesInFlight') <= 1
       /\ (Invokes("handleDeleteItem") /\ invoked'.path = "declined")
             => items' = items /\ deleting' = deleting /\ sent' = sent
       /\ \A f \in DeletesInFlight \ DeletesInFlight' :
             /\ deleting' = FALSE
             /\ items' \in {items, Without(items, f.item)}]_vars

\* ----------------------------------------- the main page: upload form

\* Number of uploads handleSubmit starts.
MaxUploads == 2

\* What the user types in the title and in the location box.
FieldTexts == {<<>>, <<" ">>, <<"a">>}

\* The submit button: disabled={uploading || !imageFile || !title || !location}
SubmitDisabled ==
    uploading \/ ~imageFile \/ title = <<>> \/ location = <<>>

\* The checks at the head of handleSubmit.
SubmitRefused == ~imageFile \/ Trim(title) = <<>> \/ Trim(location) = <<>>

\* onChange of the title box.
SetTitle(t) ==
    /\ title' = t
    /\ UNCHANGED <<location, imageFile, uploadStatus, uploading, uploadsStarted,
                   uploadsInFlight, timers>>
    /\ UNCHANGED <<serverVars, searchVars, signInVars>>

\* onChange of the location box.
SetLocation(l) ==
    /\ location' = l
    /\ UNCHANGED <<title, imageFile, uploadStatus, uploading, uploadsStarted,
                   uploadsInFlight, timers>>
    /\ UNCHANGED <<serverVars, searchVars, signInVars>>

\* handleImageChange with a file chosen.
SelectImageFile ==
    /\ ~imageFile
    /\ imageFile' = TRUE
    /\ UNCHANGED <<title, location, uploadStatus, uploading, uploadsStarted,
                   uploadsInFlight, timers>>
    /\ UNCHANGED <<serverVars, searchVars, signInVars>>

\* The form is submitted: handleSubmit up to its await.  A submission the
\* checks refuse only shows an alert.
HandleSubmit ==
    /\ ~SubmitDisabled
    /\ uploadsStarted < MaxUploads
    /\ IF SubmitRefused
       THEN UNCHANGED <<uploadStatus, uploading, uploadsStarted,
                        uploadsInFlight>>
       ELSE /\ uploadStatus' = "uploading"
            /\ uploading' = TRUE
            /\ uploadsStarted' = uploadsStarted + 1
            /\ uploadsInFlight' = uploadsInFlight \cup {uploadsStarted + 1}
    /\ UNCHANGED <<title, location, imageFile, timers>>
    /\ UNCHANGED <<serverVars, searchVars, signInVars>>

\* handleSubmit from the response of its fetch to its end.  A response that
\* is not ok, has an empty body or is not JSON, and a rejected fetch, all
\* end in the catch.
UploadResponse(n) ==
    /\ n \in uploadsInFlight
    /\ uploadsInFlight' = uploadsInFlight \ {n}
    /\ \E ok \in BOOLEAN :
          IF ok
          THEN /\ uploadStatus' = "complete"
               /\ title' = <<>>
               /\ location' = <<>>
               /\ imageFile' = FALSE
               /\ timers' = timers \cup {n}
          ELSE /\ uploadStatus' = "error"
               /\ UNCHANGED <<title, location, imageFile, timers>>
    /\ uploading' = FALSE
    /\ UNCHANGED uploadsStarted
    /\ UNCHANGED <<serverVars, searchVars, signInVars>>

\* The callback of the setTimeout armed by upload n runs.
ResetTimerFires(n) ==
    /\ n \in timers
    /\ timers' = timers \ {n}
    /\ uploadStatus' = "idle"
    /\ UNCHANGED <<title, location, imageFile, uploading, uploadsStarted,
                   uploadsInFlight>>
    /\ UNCHANGED <<serverVars, searchVars, signInVars>>

\* ---------------------------------------------------------------- C25

\* C25: while an upload is in flight uploadStatus is 'uploading'; when it
\* finishes uploadStatus becomes 'complete' or 'error' and uploading false;
\* the reset timer of an upload does not change the status once a later
\* upload has started.
C25_StatusMatchesUpload ==
    [][/\ uploadsInFlight' # {} => uploadStatus' = "uploading"
       /\ \A n \in uploadsInFlight \ uploadsInFlight' :
             uploadStatus' \in {"complete", "error"} /\ ~uploading'
       /\ \A n \in timers \ timers' :
             uploadsStarted > n => uploadStatus' = uploadStatus]_vars

\* ------------------------------------------------------ the sign-in page

\* Number of times the sign-in form is submitted.
MaxSignIns == 2

\* What the user types in the email and in the password box.
Emails == {"", "alice@example.com", "bob@example.com"}

Passwords == {"", "secret", "guess"}

\* The password the authentication service accepts, for any account.
RightPassword == "secret"

NoMessage == [present |-> FALSE, message |-> ""]

Message(text) == [present |-> TRUE, message |-> text]

Navigation(method, url) == [method |-> method, url |-> url]

\* onChange of the email box, while the page is open.
SetEmail(e) ==
    /\ signInPc # "left"
    /\ email' = e
    /\ UNCHANGED <<password, signInError, signInLoading, signInPc, signIns,
                   credentials, navigations>>
    /\ UNCHANGED <<serverVars, searchVars, uploadVars>>

\* onChange of the password box, while the page is open.
SetPassword(p) ==
    /\ signInPc # "left"
    /\ password' = p
    /\ UNCHANGED <<email, signInError, signInLoading, signInPc, signIns,
                   credentials, navigations>>
    /\ UNCHANGED <<serverVars, searchVars, uploadVars>>

\* The form is submitted (both inputs are required, the button is disabled
\* while loading): handleSignIn up to its await.
HandleSignIn ==
    /\ signInPc = "idle"
    /\ email # "" /\ password # ""
    /\ ~signInLoading
    /\ signIns < MaxSignIns
    /\ signIns' = signIns + 1
    /\ signInLoading' = TRUE
    /\ signInError' = NoMessage
    /\ signInPc' = "signInWithPassword"
    /\ credentials' = [email |-> email, password |-> password]
    /\ UNCHANGED <<email, password, navigations>>
    /\ UNCHANGED <<serverVars, searchVars, uploadVars>>

\* router.replace('/') after the try statement.
AfterSignIn(log) == Append(log, Navigation("replace", "/"))

\* handleSignIn from the result of signInWithPassword to its end: the
\* service accepts the right password and returns an error for another
\* one, or the call rejects.
SignInSettled ==
    /\ signInPc = "signInWithPassword"
    /\ \E outcome \in {"result", "rejected"} :
          IF outcome = "result" /\ credentials.password = RightPassword
          THEN /\ navigations' =
                     AfterSignIn(navigations
                                 \o <<Navigation("push", "/main"),
                                      Navigation("refresh", "")>>)
               /\ UNCHANGED signInError
          ELSE /\ navigations' = AfterSignIn(navigations)
               /\ signInError' =
                     IF outcome = "result"
                     THEN Message("Invalid login credentials")
                     ELSE Message("Failed to fetch")
    /\ signInLoading' = FALSE
    /\ signInPc' = "left"
    /\ UNCHANGED <<email, password, signIns, credentials>>
    /\ UNCHANGED <<serverVars, searchVars, uploadVars>>

\* The user opens the sign-in page again: the component is mounted afresh.
OpenSignIn ==
    /\ signInPc = "left"
    /\ email' = ""
    /\ password' = ""
    /\ signInError' = NoMessage
    /\ signInLoading' = FALSE
    /\ signInPc' = "idle"
    /\ UNCHANGED <<signIns, credentials, navigations>>
    /\ UNCHANGED <<serverVars, searchVars, uploadVars>>

\* ---------------------------------------------------------------- C26

\* The step runs handleSignIn from the result of signInWithPassword on.
SignInFinishes == signInPc = "signInWithPassword" /\ signInPc' # signInPc

\* C26: when signInWithPassword gives an error handleSignIn sets the error
\* message, resets loading and issues no navigation; when it succeeds the
\* last navigation issued leads to /main.
C26_NavigatesOnlyOnSuccess ==
    [][SignInFinishes
         => /\ ~signInLoading'
            /\ IF signInError'.present
               THEN navigations' = navigations
               ELSE /\ navigations' # navigations
                    /\ navigations'[Len(navigations')].url = "/main"]_vars

\* ------------------------------------------------------- specifications

\* The upload form before any user action.
UploadStart ==
    /\ title = <<>>
    /\ location = <<>>
    /\ imageFile = FALSE
    /\ uploadStatus = "idle"
    /\ uploading = FALSE
    /\ uploadsStarted = 0
    /\ uploadsInFlight = {}
    /\ timers = {}

\* The sign-in page when it is opened.
SignInStart ==
    /\ email = ""
    /\ password = ""
    /\ signInError = NoMessage
    /\ signInLoading = FALSE
    /\ signInPc = "idle"
    /\ signIns = 0
    /\ credentials = [email |-> "", password |-> ""]
    /\ navigations = <<>>

\* The page before any user action.
ClientStart ==
    /\ searchQuery = <<>>
    /\ similarityThreshold = 10
    /\ maxResults = TWENTY
    /\ customMaxResults = <<>>
    /\ searchImage = FALSE
    /\ items = <<>>
    /\ loading = FALSE
    /\ searchLoading = FALSE
    /\ searchProgress = "idle"
    /\ deleting = FALSE
    /\ invoked = NoInvocation
    /\ inflight = {}
    /\ sent = NothingSent
    /\ catalog = StoredItems
    /\ UploadStart
    /\ SignInStart

\* The page left alone, signed in as the first reporter.
ClientIdle ==
    /\ user = [email |-> "alice@example.com"]
    /\ ClientStart

Init == ServerInit /\ ClientIdle

Next == \E r \in Reqs : RequestStep(r)

\* The upload route serving NumReqs requests, process.env.VERCEL unset.
Spec == Init /\ [][Next]_vars

\* The same, where every started handler keeps being scheduled and every
\* awaited call settles.
SpecFair == Spec /\ \A r \in Reqs : WF_vars(RequestStep(r))

InitVercel == ServerInitVercel /\ ClientIdle

NextVercel ==
    \/ \E r \in Reqs : RequestStep(r)
    \/ PreloadProcessor
    \/ PreloadModel

\* The upload route with process.env.VERCEL set: module load pre-initializes
\* the pipeline while requests arrive.
SpecVercel == InitVercel /\ [][NextVercel]_vars
InitClient == ServerInit /\ user \in ClientUsers /\ ClientStart

NextClient ==
    \/ \E q \in Queries : SetSearchQuery(q)
    \/ \E t \in Thresholds : SetSimilarityThreshold(t)
    \/ \E option \in MaxResultsOptions : SetMaxResults(option)
    \/ \E val \in TypedValues : TypeCustomMaxResults(val)
    \/ SelectSearchImage
    \/ RemoveSearchImage
    \/ ClickTextSearch
    \/ HandleKeyPress
    \/ HandleImageSearch
    \/ \E item \in StoredItems : HandleSearchWithItem(item)
    \/ \E item \in StoredItems, confirmed \in BOOLEAN :
          HandleDeleteItem(item, confirmed)
    \/ \E f \in inflight :
          \/ TextSearchResponse(f)
          \/ ImageSearchResponse(f)
          \/ ItemImageFetched(f)
          \/ SimilarSearchResponse(f)
          \/ DeleteResponse(f)

\* The main page used by one signed-in user, making MaxOps handler
\* invocations.
SpecClient == InitClient /\ [][NextClient]_vars
NextUpload ==
    \/ \E t \in FieldTexts : SetTitle(t)
    \/ \E l \in FieldTexts : SetLocation(l)
    \/ SelectImageFile
    \/ HandleSubmit
    \/ \E n \in 1..MaxUploads : UploadResponse(n)
    \/ \E n \in 1..MaxUploads : ResetTimerFires(n)

\* The upload form of the main page, starting MaxUploads uploads.
SpecUpload == Init /\ [][NextUpload]_vars

NextSignIn ==
    \/ \E e \in Emails : SetEmail(e)
    \/ \E p \in Passwords : SetPassword(p)
    \/ HandleSignIn
    \/ SignInSettled
    \/ OpenSignIn

\* The sign-in page, submitted MaxSignIns times.
SpecSignIn == Init /\ [][NextSignIn]_vars
====
